---- MODULE Spec2Model ----
(***************************************************************************)
(* One-off MapReduce jobs for collections                                  *)
(* (core/domain/collection_jobs_one_off.py).                               *)
(*                                                                         *)
(*   CollectionMigrationOneOffJob                  specification Spec      *)
(*   RemoveCollectionRightsTranslatorIdsOneOffJob  specification SpecRemoval *)
(*   RemoveCollectionModelNodesOneOffJob           specification SpecRemoval *)
(*                                                                         *)
(* The job framework iterates over every stored entity of the selected     *)
(* kind.  It partitions the entities into shards and the shards run        *)
(* concurrently; the order inside a shard is the datastore's and each map  *)
(* invocation owns its entity, so the map invocations of a run happen in   *)
(* any order: every partition and every interleaving is one such order.    *)
(* After all map invocations the framework calls reduce once per distinct  *)
(* key with the (stringified) values emitted under that key.               *)
(***************************************************************************)
EXTENDS Integers, Sequences, FiniteSets, TLC

\* ------------------------------------------------------------------ bounds
NumRecords == 3
MaxRuns == 2

Ids == 1..NumRecords

\* --------------------------------------------------------------- constants
\* feconf.CURRENT_COLLECTION_SCHEMA_VERSION: the target version; the stored
\* versions below range over an older, the same and a newer version.
CURRENT_COLLECTION_SCHEMA_VERSION == 2
MIGRATION_BOT_USERNAME == "feconf.MIGRATION_BOT_USERNAME"
CMD_MIGRATE_SCHEMA_TO_LATEST_VERSION ==
    "collection_domain.CMD_MIGRATE_SCHEMA_TO_LATEST_VERSION"
CMD_REMOVE_NODE == "collection_domain.CMD_REMOVE_NODE"

_DELETED_KEY == "collection_deleted"
_ERROR_KEY == "validation_error"
_MIGRATED_KEY == "collection_migrated"

\* Stored schema versions: older than, equal to and newer than the target.
SchemaVersions == 1..(CURRENT_COLLECTION_SCHEMA_VERSION + 1)
\* What collection.validate(strict=False) does on the loaded collection:
\* "ok" returns, anything else is the text of the exception it raises.
Defects == {"ok", "Expected title to be a string"}

VARIABLES
    job,          \* the job manager that is running
    run,          \* number of the current sweep, 1..MaxRuns
    collections,  \* datastore: CollectionModel entities by id
    rights,       \* datastore: CollectionRightsModel entities by id
    status,       \* "running" or "aborted": the framework's state of the run
    invocation,   \* per entity: what its last map invocation of this run did
    shuffle,      \* key -> sequence of stringified values, in emission order
    output,       \* key -> what reduce yielded for the key
    removed_earlier  \* entities an earlier run reported as SUCCESS_REMOVED

vars == <<job, run, collections, rights, status, invocation,
          shuffle, output, removed_earlier>>

\* --------------------------------------------------- strings and numbers
\* Python values yielded by map: an int or a unicode string.
PyInt(n) == [t |-> "int", v |-> n]
PyStr(x) == [t |-> "unicode", v |-> x]

\* repr of a non-negative integer: its decimal digits, most significant first.
RECURSIVE Repr(_)
Repr(n) == IF n < 10 THEN <<n>> ELSE Append(Repr(n \div 10), n % 10)

\* ast.literal_eval on a string of decimal digits.
RECURSIVE literal_eval(_)
literal_eval(s) ==
    IF Len(s) = 0 THEN 0
    ELSE 10 * literal_eval(SubSeq(s, 1, Len(s) - 1)) + s[Len(s)]

\* python_utils.UNICODE / the framework's str() of every emitted value:
\* reduce receives strings only.
UNICODE(v) == IF v.t = "int" THEN Repr(v.v) ELSE v.v

\* Mutant of SumEval: the values are not accumulated.
SumEval_not_accumulated(values) ==
    IF Len(values) = 0 THEN 0 ELSE literal_eval(values[Len(values)])

\* sum(ast.literal_eval(v) for v in values)
RECURSIVE SumEval(_)
SumEval(values) ==
    IF Len(values) = 0 THEN 0
    ELSE literal_eval(Head(values)) + SumEval(Tail(values))

\* '<fmt>' % args
Format(fmt, args) == [fmt |-> fmt, args |-> args]

\* ------------------------------------------------------ map invocations
\* What one map invocation did.  state: "pending" (not invoked in this run),
\* "returned" (the generator ran to its end) or "raised" (an exception left
\* map); item is the entity as the framework read it from the datastore.
NoItem == [id |-> 0]
Pending ==
    [state |-> "pending", item |-> NoItem, pairs |-> <<>>,
     loads |-> 0, validations |-> 0, logs |-> <<>>, updates |-> <<>>,
     entity |-> NoItem]

Outcome(item, state, pairs, loads, validations, logs, updates, entity) ==
    [state |-> state, item |-> item, pairs |-> pairs,
     loads |-> loads, validations |-> validations, logs |-> logs,
     updates |-> updates, entity |-> entity]

\* A call collection_services.update_collection(committer_id, collection_id,
\* change_list, commit_message); committed tells whether it returned.
UpdateCall(committer_id, collection_id, change_list, commit_message, ok) ==
    [committer_id |-> committer_id, collection_id |-> collection_id,
     change_list |-> change_list, commit_message |-> commit_message,
     committed |-> ok]

\* ------------------------------------------ CollectionMigrationOneOffJob
\* Mutant of ShouldMigrate: strict comparison.
ShouldMigrate_strict(item) ==
    item.schema_version < CURRENT_COLLECTION_SCHEMA_VERSION

\* Mutant of ShouldMigrate: the version is not compared at all.
ShouldMigrate_always(item) == item.schema_version \in SchemaVersions

\* if item.schema_version <= feconf.CURRENT_COLLECTION_SCHEMA_VERSION
ShouldMigrate(item) ==
    item.schema_version <= CURRENT_COLLECTION_SCHEMA_VERSION

\* 'Collection %s failed validation: %s' % (item.id, e)
ValidationMessage(item) ==
    Format("Collection %s failed validation: %s", <<item.id, item.defect>>)

\* commit_cmds and the update_collection call of the migration.
MigrationUpdate(item, ok) ==
    UpdateCall(
        MIGRATION_BOT_USERNAME, item.id,
        <<[cmd |-> CMD_MIGRATE_SCHEMA_TO_LATEST_VERSION,
           from_version |-> item.schema_version,
           to_version |-> UNICODE(PyInt(CURRENT_COLLECTION_SCHEMA_VERSION))]>>,
        Format("Update collection schema version to %d.",
               <<CURRENT_COLLECTION_SCHEMA_VERSION>>),
        ok)

\* Mutant of DeletedOutcome: the return is missing, the deleted record is
\* loaded and validated.
DeletedOutcome_no_return(item) ==
    Outcome(item, "returned", <<<<_DELETED_KEY, PyInt(1)>>>>,
            1, 1, <<>>, <<>>, item)

\* if item.deleted: yield (_DELETED_KEY, 1); return
DeletedOutcome(item) ==
    Outcome(item, "returned", <<<<_DELETED_KEY, PyInt(1)>>>>,
            0, 0, <<>>, <<>>, item)

\* collection_services.get_collection_by_id(item.id) raises: nothing
\* catches it, the exception leaves map.
LoadFailure(item) ==
    Outcome(item, "raised", <<>>, 1, 0, <<>>, <<>>, item)

\* Mutant of ValidationFailure: the return is missing, the invalid record
\* goes on to the update.
ValidationFailure_no_return(item) ==
    IF ShouldMigrate(item) THEN
        Outcome(item, "returned",
                <<<<_ERROR_KEY, PyStr(ValidationMessage(item))>>>>,
                1, 1, <<ValidationMessage(item)>>,
                <<MigrationUpdate(item, TRUE)>>, item)
    ELSE
        Outcome(item, "returned",
                <<<<_ERROR_KEY, PyStr(ValidationMessage(item))>>>>,
                1, 1, <<ValidationMessage(item)>>, <<>>, item)

\* collection.validate(strict=False) raises: logged, yielded, return.
ValidationFailure(item) ==
    Outcome(item, "returned",
            <<<<_ERROR_KEY, PyStr(ValidationMessage(item))>>>>,
            1, 1, <<ValidationMessage(item)>>, <<>>, item)

\* Mutant of Migrate: the yield comes before the update call.
Migrate_yield_first(item, updateRaises) ==
    Outcome(item, IF updateRaises THEN "raised" ELSE "returned",
            <<<<_MIGRATED_KEY, PyInt(1)>>>>, 1, 1, <<>>,
            <<MigrationUpdate(item, ~updateRaises)>>, item)

\* update_collection(...) and then yield (_MIGRATED_KEY, 1); an exception
\* of update_collection leaves map before the yield.
Migrate(item, updateRaises) ==
    IF updateRaises THEN
        Outcome(item, "raised", <<>>, 1, 1, <<>>,
                <<MigrationUpdate(item, FALSE)>>, item)
    ELSE
        Outcome(item, "returned", <<<<_MIGRATED_KEY, PyInt(1)>>>>,
                1, 1, <<>>, <<MigrationUpdate(item, TRUE)>>, item)

\* CollectionMigrationOneOffJob.map(item).  loadRaises: get_collection_by_id
\* raises; updateRaises: update_collection raises.
CollectionMigrationOneOffJob_map(item, loadRaises, updateRaises) ==
    IF item.deleted THEN DeletedOutcome(item)
    ELSE IF loadRaises THEN LoadFailure(item)
    ELSE IF item.defect # "ok" THEN ValidationFailure(item)
    ELSE IF ShouldMigrate(item) THEN Migrate(item, updateRaises)
    ELSE Outcome(item, "returned", <<>>, 1, 1, <<>>, <<>>, item)

\* CollectionMigrationOneOffJob.reduce(key, values): the pairs it yields.
CollectionMigrationOneOffJob_reduce(key, values) ==
    IF key = _DELETED_KEY THEN
        <<<<key, <<Format("Encountered %d deleted collections.",
                          <<SumEval(values)>>)>>>>>>
    ELSE IF key = _MIGRATED_KEY THEN
        <<<<key, <<Format("%d collections successfully migrated.",
                          <<SumEval(values)>>)>>>>>>
    ELSE
        <<<<key, values>>>>

\* -------------------------- RemoveCollectionRightsTranslatorIdsOneOffJob
RIGHTS_REMOVED == "SUCCESS_REMOVED - CollectionRightsModel"
RIGHTS_ALREADY_REMOVED == "SUCCESS_ALREADY_REMOVED - CollectionRightsModel"
NODES_REMOVED == "SUCCESS_REMOVED - CollectionModel"
NODES_ALREADY_REMOVED == "SUCCESS_ALREADY_REMOVED - CollectionModel"

\* BaseModel.update_timestamps(update_last_updated_time): sets the
\* timestamps of the in-memory entity; it does not write to the datastore
\* (the write is the separate put(), see the two calls kept as comments in
\* RemoveCollectionModelNodesOneOffJob.map).
update_timestamps(model, update_last_updated_time, now) ==
    IF update_last_updated_time
    THEN [model EXCEPT !.last_updated = now]
    ELSE model

\* Mutant of HasField: the field is looked up in _values.
HasField_in_values(model) == model.in_values

\* if '<field>' in model._properties
HasField(model) == model.in_properties

\* del model._properties[field]; if field in model._values: del ...
DeleteField(model) ==
    LET m == [model EXCEPT !.in_properties = FALSE]
    IN  IF m.in_values THEN [m EXCEPT !.in_values = FALSE] ELSE m

\* RemoveCollectionRightsTranslatorIdsOneOffJob.map(collection_rights_model)
RemoveCollectionRightsTranslatorIdsOneOffJob_map(model, now) ==
    IF HasField(model) THEN
        Outcome(model, "returned", <<<<RIGHTS_REMOVED, PyStr(model.id)>>>>,
                0, 0, <<>>, <<>>,
                update_timestamps(DeleteField(model), FALSE, now))
    ELSE
        Outcome(model, "returned",
                <<<<RIGHTS_ALREADY_REMOVED, PyStr(model.id)>>>>,
                0, 0, <<>>, <<>>, model)

\* RemoveCollectionRightsTranslatorIdsOneOffJob.reduce(key, values)
RemoveCollectionRightsTranslatorIdsOneOffJob_reduce(key, values) ==
    <<<<key, Len(values)>>>>

\* ------------------------------------ RemoveCollectionModelNodesOneOffJob
NodesUpdate(model, ok) ==
    UpdateCall(MIGRATION_BOT_USERNAME, model.id,
               <<[cmd |-> CMD_REMOVE_NODE]>>,
               Format("remove nodes from collection", <<>>), ok)

\* RemoveCollectionModelNodesOneOffJob.map(collection_model)
RemoveCollectionModelNodesOneOffJob_map(model, updateRaises) ==
    IF HasField(model) THEN
        IF updateRaises THEN
            Outcome(model, "raised", <<>>, 0, 0, <<>>,
                    <<NodesUpdate(model, FALSE)>>, DeleteField(model))
        ELSE
            Outcome(model, "returned", <<<<NODES_REMOVED, PyStr(model.id)>>>>,
                    0, 0, <<>>, <<NodesUpdate(model, TRUE)>>,
                    DeleteField(model))
    ELSE
        Outcome(model, "returned",
                <<<<NODES_ALREADY_REMOVED, PyStr(model.id)>>>>,
                0, 0, <<>>, <<>>, model)

\* RemoveCollectionModelNodesOneOffJob.reduce(key, values)
RemoveCollectionModelNodesOneOffJob_reduce(key, values) ==
    <<<<key, Len(values)>>>>

\* --------------------------------------------------------- the datastore
MIGRATION_JOB == "CollectionMigrationOneOffJob"
RIGHTS_JOB == "RemoveCollectionRightsTranslatorIdsOneOffJob"
NODES_JOB == "RemoveCollectionModelNodesOneOffJob"

MigrationKeys == {_DELETED_KEY, _ERROR_KEY, _MIGRATED_KEY}
RightsKeys == {RIGHTS_REMOVED, RIGHTS_ALREADY_REMOVED}
NodesKeys == {NODES_REMOVED, NODES_ALREADY_REMOVED}
Keys == MigrationKeys \cup RightsKeys \cup NodesKeys

\* A stored CollectionModel; in_properties / in_values: the legacy field
\* `nodes` is in the entity's _properties / _values.
CollectionModel(id, deleted, schema_version, defect, in_p, in_v) ==
    [id |-> id, deleted |-> deleted, schema_version |-> schema_version,
     defect |-> defect, in_properties |-> in_p, in_values |-> in_v,
     last_updated |-> 0]

\* A stored CollectionRightsModel; the legacy field is `translator_ids`.
CollectionRightsModel(id, in_p, in_v) ==
    [id |-> id, in_properties |-> in_p, in_values |-> in_v,
     last_updated |-> 0]

\* A legacy field has a value only if the entity has the property.
FieldStates == {<<TRUE, TRUE>>, <<TRUE, FALSE>>, <<FALSE, FALSE>>}

\* collection_services.update_collection: applies the change list to the
\* stored collection and commits it; a call that raised wrote nothing.
update_collection(store, call, now) ==
    IF ~call.committed THEN store
    ELSE IF call.change_list[1].cmd = CMD_MIGRATE_SCHEMA_TO_LATEST_VERSION THEN
        [store EXCEPT ![call.collection_id] =
            [@ EXCEPT !.schema_version = CURRENT_COLLECTION_SCHEMA_VERSION,
                      !.last_updated = now]]
    ELSE
        [store EXCEPT ![call.collection_id] =
            [@ EXCEPT !.in_properties = FALSE, !.in_values = FALSE,
                      !.last_updated = now]]

RECURSIVE ApplyUpdates(_, _, _)
ApplyUpdates(store, calls, now) ==
    IF Len(calls) = 0 THEN store
    ELSE ApplyUpdates(update_collection(store, Head(calls), now),
                      Tail(calls), now)

\* The framework stores every yielded pair under its key, stringified.
RECURSIVE Emit(_, _)
Emit(sh, pairs) ==
    IF Len(pairs) = 0 THEN sh
    ELSE Emit([sh EXCEPT ![Head(pairs)[1]] = Append(@, UNICODE(Head(pairs)[2]))],
              Tail(pairs))

\* ------------------------------------------------------------ the framework
\* The datastore's time: the stored entities were last written at time 0,
\* a write of run n happens at time n.
Now == run

\* All map invocations of the run have returned: the reduce barrier.
Barrier == \A id \in Ids : invocation[id].state = "returned"

Completed ==
    /\ status = "running"
    /\ Barrier
    /\ \A k \in Keys : shuffle[k] # <<>> => output[k] # <<>>

\* The framework runs map on one entity and takes what it yielded and wrote.
\* An exception that leaves map fails the run: the framework aborts it and
\* calls no reduce; the job can be enqueued again.
Invoke(id, r) ==
    /\ status = "running"
    /\ invocation[id].state = "pending"
    /\ invocation' = [invocation EXCEPT ![id] = r]
    /\ collections' = ApplyUpdates(collections, r.updates, Now)
    /\ shuffle' = Emit(shuffle, r.pairs)
    /\ status' = IF r.state = "raised" THEN "aborted" ELSE "running"
    /\ UNCHANGED <<job, run, rights, output, removed_earlier>>

Reduced(key, result) ==
    /\ status = "running"
    /\ Barrier
    /\ shuffle[key] # <<>>
    /\ output[key] = <<>>
    /\ output' = [output EXCEPT ![key] = result]
    /\ UNCHANGED <<job, run, collections, rights, status,
                   invocation, shuffle, removed_earlier>>

\* ------------------------------------------------------------------ actions
MigrationMap ==
    \E id \in Ids, loadRaises \in BOOLEAN, updateRaises \in BOOLEAN :
        /\ job = MIGRATION_JOB
        /\ Invoke(id, CollectionMigrationOneOffJob_map(
                          collections[id], loadRaises, updateRaises))

MigrationReduce ==
    \E key \in MigrationKeys :
        /\ job = MIGRATION_JOB
        /\ Reduced(key, CollectionMigrationOneOffJob_reduce(key, shuffle[key]))

RightsMap ==
    \E id \in Ids :
        /\ job = RIGHTS_JOB
        /\ Invoke(id, RemoveCollectionRightsTranslatorIdsOneOffJob_map(
                          rights[id], Now))

RightsReduce ==
    \E key \in RightsKeys :
        /\ job = RIGHTS_JOB
        /\ Reduced(key, RemoveCollectionRightsTranslatorIdsOneOffJob_reduce(
                            key, shuffle[key]))

NodesMap ==
    \E id \in Ids, updateRaises \in BOOLEAN :
        /\ job = NODES_JOB
        /\ Invoke(id, RemoveCollectionModelNodesOneOffJob_map(
                          collections[id], updateRaises))

NodesReduce ==
    \E key \in NodesKeys :
        /\ job = NODES_JOB
        /\ Reduced(key, RemoveCollectionModelNodesOneOffJob_reduce(
                            key, shuffle[key]))

\* enqueue: the job is run again over the datastore as the last run left it.
enqueue ==
    /\ run < MaxRuns
    /\ Completed \/ status = "aborted"
    /\ run' = run + 1
    /\ status' = "running"
    /\ invocation' = [id \in Ids |-> Pending]
    /\ shuffle' = [k \in Keys |-> <<>>]
    /\ output' = [k \in Keys |-> <<>>]
    /\ removed_earlier' = removed_earlier \cup
           {id \in Ids : /\ invocation[id].pairs # <<>>
                          /\ invocation[id].pairs[1][1]
                                 \in {RIGHTS_REMOVED, NODES_REMOVED}}
    /\ UNCHANGED <<job, collections, rights>>

\* ----------------------------------------------------------- specifications
InitRun ==
    /\ run = 1
    /\ status = "running"
    /\ invocation = [id \in Ids |-> Pending]
    /\ shuffle = [k \in Keys |-> <<>>]
    /\ output = [k \in Keys |-> <<>>]
    /\ removed_earlier = {}

\* Map invocations do not depend on the ids and happen in any order, so
\* the stores are taken up to a renaming of the ids: sorted by Rank.
Rank(model) ==
    (IF model.deleted THEN 2 * Cardinality(SchemaVersions) ELSE 0)
    + 2 * (model.schema_version - 1)
    + (IF model.defect = "ok" THEN 0 ELSE 1)

Sorted(store) ==
    \A id \in Ids :
        id + 1 \in Ids => Rank(store[id]) <= Rank(store[id + 1])

\* The migration job over any stored collections.
Init ==
    /\ job = MIGRATION_JOB
    /\ \E d \in [Ids -> BOOLEAN], v \in [Ids -> SchemaVersions],
          e \in [Ids -> Defects] :
        collections = [id \in Ids |->
            CollectionModel(id, d[id], v[id], e[id], FALSE, FALSE)]
    /\ Sorted(collections)
    /\ rights = [id \in Ids |-> CollectionRightsModel(id, FALSE, FALSE)]
    /\ InitRun

Next == MigrationMap \/ MigrationReduce \/ enqueue

Spec == Init /\ [][Next]_vars

\* One of the two field-removal jobs over any stored entities of its kind.
InitRemoval ==
    /\ job \in {RIGHTS_JOB, NODES_JOB}
    /\ \E f \in [Ids -> FieldStates], g \in [Ids -> FieldStates] :
        /\ collections = [id \in Ids |->
               CollectionModel(id, FALSE, CURRENT_COLLECTION_SCHEMA_VERSION,
                               "ok", f[id][1], f[id][2])]
        /\ rights = [id \in Ids |->
               CollectionRightsModel(id, g[id][1], g[id][2])]
        /\ job = RIGHTS_JOB => \A id \in Ids : ~f[id][1]
        /\ job = NODES_JOB => \A id \in Ids : ~g[id][1]
    /\ InitRun

NextRemoval ==
    RightsMap \/ RightsReduce \/ NodesMap \/ NodesReduce \/ enqueue

SpecRemoval == InitRemoval /\ [][NextRemoval]_vars

\* ------------------------------------------------------------------ claims
Returned(id) == invocation[id].state = "returned"
Raised(id) == invocation[id].state = "raised"
Invoked(id) == invocation[id].state # "pending"
Elements(seq) == {seq[i] : i \in DOMAIN seq}
MigratedPair == <<_MIGRATED_KEY, PyInt(1)>>

\* The record passed validation: it is not deleted, its load returned and
\* validate did not raise.
Valid(item) == ~item.deleted /\ item.defect = "ok"

\* C1 as stated: after a complete sweep every non-deleted record whose stored
\* schema_version was at most the current target version is stored with the
\* target version and has emitted exactly one (MIGRATED, 1).
C1_EveryOldRecordMigrated ==
    (job = MIGRATION_JOB /\ Completed) =>
        \A id \in Ids :
            LET inv == invocation[id] IN
            (~inv.item.deleted
             /\ inv.item.schema_version <= CURRENT_COLLECTION_SCHEMA_VERSION)
            => /\ collections[id].schema_version
                    = CURRENT_COLLECTION_SCHEMA_VERSION
               /\ inv.pairs = <<MigratedPair>>

\* C1 amended: after a complete sweep every non-deleted record that passes
\* validation and whose stored schema_version was at most the current target
\* version is stored with the target version and has emitted exactly one
\* (MIGRATED, 1), so the MIGRATED values add up to at least the number of
\* these records.
C1_ValidOldRecordMigrated ==
    (job = MIGRATION_JOB /\ Completed) =>
        LET old == {id \in Ids :
                      /\ Valid(invocation[id].item)
                      /\ invocation[id].item.schema_version
                             <= CURRENT_COLLECTION_SCHEMA_VERSION}
        IN  /\ \A id \in old :
                /\ collections[id].schema_version
                     = CURRENT_COLLECTION_SCHEMA_VERSION
                /\ invocation[id].pairs = <<MigratedPair>>
            /\ SumEval(shuffle[_MIGRATED_KEY]) = Cardinality(old)

\* A complete sweep that took a valid record from an older version to the
\* target version.
C1_Witness ==
    /\ job = MIGRATION_JOB /\ Completed
    /\ \E id \in Ids :
        /\ Valid(invocation[id].item)
        /\ invocation[id].item.schema_version
               < CURRENT_COLLECTION_SCHEMA_VERSION
        /\ collections[id].schema_version = CURRENT_COLLECTION_SCHEMA_VERSION
        /\ invocation[id].pairs = <<MigratedPair>>

\* C2: for a deleted record map loads nothing, validates nothing, logs and
\* writes nothing, leaves the stored record as it was and emits exactly one
\* pair (DELETED, 1); the DELETED values are one "1" per deleted record.
C2_DeletedUntouched ==
    job = MIGRATION_JOB =>
        /\ \A id \in Ids :
            LET inv == invocation[id] IN
            (Invoked(id) /\ inv.item.deleted) =>
                /\ inv.state = "returned"
                /\ inv.loads = 0 /\ inv.validations = 0
                /\ inv.logs = <<>> /\ inv.updates = <<>>
                /\ collections[id] = inv.item
                /\ inv.pairs = <<<<_DELETED_KEY, PyInt(1)>>>>
        /\ Len(shuffle[_DELETED_KEY])
             = Cardinality({id \in Ids :
                              Invoked(id) /\ invocation[id].item.deleted})
        /\ \A v \in Elements(shuffle[_DELETED_KEY]) : literal_eval(v) = 1

\* A deleted record that is old and invalid (it would be loaded and reported
\* if it were not deleted) has been mapped.
C2_Witness ==
    /\ job = MIGRATION_JOB
    /\ \E id \in Ids :
        /\ Returned(id)
        /\ invocation[id].item.deleted
        /\ invocation[id].item.defect # "ok"
        /\ invocation[id].item.schema_version
               < CURRENT_COLLECTION_SCHEMA_VERSION
        /\ shuffle[_DELETED_KEY] # <<>>

\* The records whose validation raised in this run.
Invalid ==
    {id \in Ids : /\ Invoked(id)
                  /\ ~invocation[id].item.deleted
                  /\ invocation[id].validations = 1
                  /\ invocation[id].item.defect # "ok"}

\* C4: a record whose validation raises is not written (its stored record,
\* schema_version included, stays as it was), its map invocation returns so
\* the run is not aborted by it, and reduce yields under VALIDATION_ERROR the
\* list of the failure messages themselves, one per failed record.
C4_ValidationErrorReported ==
    job = MIGRATION_JOB =>
        /\ \A id \in Invalid :
            LET inv == invocation[id] IN
            /\ inv.state = "returned"
            /\ inv.updates = <<>>
            /\ collections[id] = inv.item
            /\ inv.pairs
                 = <<<<_ERROR_KEY,
                       PyStr(Format("Collection %s failed validation: %s",
                                    <<id, inv.item.defect>>))>>>>
        /\ output[_ERROR_KEY] # <<>> =>
            /\ Len(output[_ERROR_KEY]) = 1
            /\ output[_ERROR_KEY][1][1] = _ERROR_KEY
            /\ Len(output[_ERROR_KEY][1][2]) = Cardinality(Invalid)
            /\ Elements(output[_ERROR_KEY][1][2])
                 = {Format("Collection %s failed validation: %s",
                           <<id, invocation[id].item.defect>>) : id \in Invalid}

\* A complete sweep with two invalid records, both messages in the output,
\* and another record migrated after the first failure.
C4_Witness ==
    /\ job = MIGRATION_JOB /\ Completed
    /\ Cardinality(Invalid) = 2
    /\ Len(output[_ERROR_KEY][1][2]) = 2
    /\ shuffle[_MIGRATED_KEY] # <<>>
    /\ \A id \in Invalid :
        invocation[id].item.schema_version < CURRENT_COLLECTION_SCHEMA_VERSION

\* The records whose update call returned: the records this run migrated.
UpdateReturned ==
    {id \in Ids : /\ Invoked(id)
                  /\ Len(invocation[id].updates) = 1
                  /\ invocation[id].updates[1].committed}

\* The deleted records this run has mapped.
DeletedRecords == {id \in Ids : Invoked(id) /\ invocation[id].item.deleted}

\* What the reduced result must hold under a counting key for n records.
CountReport(key, fmt, n) ==
    IF n = 0 THEN <<>> ELSE <<<<key, <<Format(fmt, <<n>>)>>>>>>

\* C5: in whatever order the map invocations ran, once a key is reduced the
\* result holds for DELETED the sentence with the number of deleted records
\* and for MIGRATED the sentence with the number of records migrated; after
\* a complete sweep both are there (a key without values is not reduced).
C5_CountsAreExact ==
    job = MIGRATION_JOB =>
        /\ output[_DELETED_KEY] # <<>> =>
            output[_DELETED_KEY]
              = CountReport(_DELETED_KEY, "Encountered %d deleted collections.",
                            Cardinality(DeletedRecords))
        /\ output[_MIGRATED_KEY] # <<>> =>
            output[_MIGRATED_KEY]
              = CountReport(_MIGRATED_KEY,
                            "%d collections successfully migrated.",
                            Cardinality(UpdateReturned))
        /\ Completed =>
            /\ (output[_DELETED_KEY] = <<>>) = (DeletedRecords = {})
            /\ (output[_MIGRATED_KEY] = <<>>) = (UpdateReturned = {})

\* Two deleted records and one valid record of an old version: 'Encountered
\* 2 deleted collections.' and '1 collections successfully migrated.'.
C5_Witness ==
    /\ job = MIGRATION_JOB /\ Completed
    /\ \E id \in Ids :
        /\ Valid(invocation[id].item)
        /\ invocation[id].item.schema_version
               < CURRENT_COLLECTION_SCHEMA_VERSION
    /\ output[_DELETED_KEY]
         = <<<<_DELETED_KEY,
               <<Format("Encountered %d deleted collections.", <<2>>)>>>>>>
    /\ output[_MIGRATED_KEY]
         = <<<<_MIGRATED_KEY,
               <<Format("%d collections successfully migrated.", <<1>>)>>>>>>

\* The invocations whose load raised, and those whose update call raised.
LoadFailed ==
    {id \in Ids : /\ Invoked(id)
                  /\ invocation[id].loads = 1
                  /\ invocation[id].validations = 0}
UpdateFailed ==
    {id \in Ids : /\ Invoked(id)
                  /\ Len(invocation[id].updates) = 1
                  /\ ~invocation[id].updates[1].committed}

\* C8: a load failure or a write failure leaves map as an exception; such an
\* invocation emits no pair, an exception is never anything but one of the
\* two, and the MIGRATED values are one per update call that returned.
C8_InfrastructureFailurePropagates ==
    job = MIGRATION_JOB =>
        /\ \A id \in LoadFailed \cup UpdateFailed :
            /\ invocation[id].state = "raised"
            /\ invocation[id].pairs = <<>>
        /\ \A id \in Ids :
            Raised(id) => id \in LoadFailed \cup UpdateFailed
        /\ Len(shuffle[_MIGRATED_KEY]) = Cardinality(UpdateReturned)
        /\ \A id \in Ids :
            (Invoked(id) /\ MigratedPair \in Elements(invocation[id].pairs))
                => id \in UpdateReturned

\* An update call raised after another record had been migrated and counted.
C8_Witness ==
    /\ job = MIGRATION_JOB
    /\ UpdateFailed # {}
    /\ UpdateReturned # {}
    /\ Len(shuffle[_MIGRATED_KEY]) = 1
    /\ status = "aborted"

\* The valid, non-deleted records that were stored with the target version
\* when this run mapped them.
UpToDate ==
    {id \in Ids : /\ Returned(id)
                  /\ Valid(invocation[id].item)
                  /\ invocation[id].item.schema_version
                         = CURRENT_COLLECTION_SCHEMA_VERSION}

Newer ==
    {id \in Ids : /\ Returned(id)
                  /\ Valid(invocation[id].item)
                  /\ invocation[id].item.schema_version
                         > CURRENT_COLLECTION_SCHEMA_VERSION}

\* C10: a valid non-deleted record stored with a version above the target
\* is not written and emits nothing, so after a complete sweep the number of
\* emitted values is the number of records less these; no map invocation
\* emits more than one pair or makes more than one update call.
C10_NewerRecordSilent ==
    job = MIGRATION_JOB =>
        /\ \A id \in Newer :
            /\ invocation[id].updates = <<>>
            /\ invocation[id].pairs = <<>>
            /\ collections[id] = invocation[id].item
        /\ \A id \in Ids :
            /\ Len(invocation[id].pairs) <= 1
            /\ Len(invocation[id].updates) <= 1
        /\ Completed =>
            Len(shuffle[_DELETED_KEY]) + Len(shuffle[_MIGRATED_KEY])
              + Len(shuffle[_ERROR_KEY])
              = NumRecords - Cardinality(Newer)

\* A complete sweep that reports fewer outcomes than there are records.
C10_Witness ==
    /\ job = MIGRATION_JOB /\ Completed
    /\ Newer # {}
    /\ Len(shuffle[_DELETED_KEY]) + Len(shuffle[_MIGRATED_KEY])
         + Len(shuffle[_ERROR_KEY]) < NumRecords

\* ---------------------------------------------- claims on the field removal
RemovalJob == job \in {RIGHTS_JOB, NODES_JOB}
RemovedKey == IF job = RIGHTS_JOB THEN RIGHTS_REMOVED ELSE NODES_REMOVED
AlreadyRemovedKey ==
    IF job = RIGHTS_JOB THEN RIGHTS_ALREADY_REMOVED ELSE NODES_ALREADY_REMOVED
KeyOf(item) == IF item.in_properties THEN RemovedKey ELSE AlreadyRemovedKey
Reported(key) == IF output[key] = <<>> THEN 0 ELSE output[key][1][2]

\* C3: a record the sweep reported as SUCCESS_REMOVED in an earlier run is
\* reported as SUCCESS_ALREADY_REMOVED by every later run, which removes
\* and writes nothing; in the first run a record with the legacy field is
\* reported as SUCCESS_REMOVED.
C3_RemovalIsIdempotent ==
    RemovalJob =>
        \A id \in Ids :
            LET inv == invocation[id] IN
            /\ (Returned(id) /\ run = 1 /\ inv.item.in_properties)
                 => inv.pairs[1][1] = RemovedKey
            /\ (Invoked(id) /\ id \in removed_earlier)
                 => /\ inv.state = "returned"
                    /\ inv.pairs[1][1] = AlreadyRemovedKey
                    /\ inv.updates = <<>>
                    /\ inv.entity = inv.item

\* C6: every map invocation that returns emits exactly one pair, keyed
\* SUCCESS_REMOVED when the legacy field is in the entity's properties and
\* SUCCESS_ALREADY_REMOVED when it is not, with the id as value; reduce
\* reports for a key the number of records that emitted it; after a complete
\* sweep every record has emitted once and the two counts add up to the
\* number of records.
C6_OnePairPerRecord ==
    RemovalJob =>
        /\ \A id \in Ids :
            Returned(id) =>
                invocation[id].pairs
                  = <<<<KeyOf(invocation[id].item), PyStr(id)>>>>
        /\ \A key \in {RemovedKey, AlreadyRemovedKey} :
            output[key] # <<>> =>
                output[key]
                  = <<<<key,
                        Cardinality({id \in Ids :
                            /\ Returned(id)
                            /\ KeyOf(invocation[id].item) = key})>>>>
        /\ Completed =>
            /\ \A id \in Ids :
                Len(SelectSeq(shuffle[RemovedKey] \o shuffle[AlreadyRemovedKey],
                              LAMBDA v : v = id)) = 1
            /\ Reported(RemovedKey) + Reported(AlreadyRemovedKey) = NumRecords

\* A complete sweep over rights records of which exactly one has no
\* translator_ids: SUCCESS_ALREADY_REMOVED - CollectionRightsModel: 1.
C6_Witness ==
    /\ job = RIGHTS_JOB /\ Completed
    /\ output[RIGHTS_ALREADY_REMOVED] = <<<<RIGHTS_ALREADY_REMOVED, 1>>>>
    /\ output[RIGHTS_REMOVED] = <<<<RIGHTS_REMOVED, NumRecords - 1>>>>
    /\ \E id \in Ids :
        invocation[id].item.in_properties /\ ~invocation[id].item.in_values

\* C7: once map has returned for a rights record that had translator_ids,
\* the stored record has the field neither in its properties nor in its
\* values, and its stored last-updated time is what it was.
C7_RightsRemovalPersisted ==
    job = RIGHTS_JOB =>
        \A id \in Ids :
            (Returned(id) /\ invocation[id].item.in_properties) =>
                /\ ~rights[id].in_properties
                /\ ~rights[id].in_values
                /\ rights[id].last_updated
                     = invocation[id].item.last_updated

====
